---- MODULE Spec2Model ----
(***************************************************************************)
(* The rebalancer's Poller (cellar_rebalancer/src/collector/poller.rs) and *)
(* the prediction window it refreshes (src/time_range.rs).                 *)
(*                                                                         *)
(* One task owns the Poller and runs `run`: wait for the interval, run one *)
(* `poll` cycle, repeat.  A cycle joins three fetches with try_join!,      *)
(* merges them with update_poller and then runs decide_rebalance.  A Rust  *)
(* panic (unwrap / expect on a failure) unwinds through `run` and ends the *)
(* task: pc = "Panicked" has no successor.                                 *)
(*                                                                         *)
(* Encodings.  Option<T>: None is <<>>, Some(x) is <<x>>.  An f64 price    *)
(* unit is counted in halves and an f64 weight in quarters, so that the    *)
(* float-to-integer conversions of the code have something to discard.     *)
(***************************************************************************)
EXTENDS Integers, Sequences, FiniteSets, TLC

VARIABLES
    poll_interval,    \* Poller.poll_interval
    time_range,       \* Poller.time_range : TimeRange
    cellar_gas,       \* Poller.cellar_gas : CellarGas
    contract_state,   \* Poller.contract_state (its gas_price field)
    dry_run_env,      \* the process environment's CELLAR_DRY_RUN: Option<String>
    pc,               \* where the task running Poller::run stands
    ticks_due,        \* interval deadlines that have elapsed and that tick() has not returned yet
    fetched_tr,       \* try_join! slot 1: Option<TimeRange> (the polled clone)
    fetched_gas,      \* try_join! slot 2: Option<U256>
    fetched_cs,       \* try_join! slot 3: TRUE once poll_contract_state is ready
    tick_info,        \* decide_rebalance's local Vec<CellarTickInfo>
    in_flight,        \* rebalance calls sent and not yet answered
    active_cycles,    \* invocations of Poller::poll that have not returned
    \* ---- history of the current cycle (reset by the next tick) ----
    before,           \* the Poller's mutable state when the cycle began
    store_resp,       \* what the prediction store answered
    gas_resp,         \* what the gas oracle answered: Option of the answer
    merged,           \* update_poller ran
    rebalance_calls,  \* calls of contract_state.rebalance
    decide_result     \* what decide_rebalance returned: "none", "Ok", "Err"

vars == << poll_interval, time_range, cellar_gas, contract_state, dry_run_env, pc,
           ticks_due, fetched_tr, fetched_gas, fetched_cs, tick_info, in_flight,
           active_cycles, before, store_resp, gas_resp, merged, rebalance_calls,
           decide_result >>

(***************************************************************************)
(* Bounds and input sets                                                   *)
(***************************************************************************)
\* longest tick_weights list of a stored prediction
MaxLen == 1
\* longest tick_weights list decide_rebalance is started on in DecideSpec
MaxRanges == 3
\* most interval deadlines that may elapse unconsumed
MaxPending == 2
\* longest tick_weights list of a stored prediction in PollSpec
MaxBounds == 2

None == << >>
Some(x) == << x >>

Timestamps == {1, 2}
PairIds == {1, 2}
\* U256 prices in wei: one below and one above max_gas_price (1 gwei)
GasPrices == {1, 2000000000}
\* f64 price units, in halves: 1.0 and 2.5
RawUnits == {2, 5}
\* f64 weights, in quarters: 0.0, 0.25, 0.5 and 1.0
RawWeights == {0, 1, 2, 4}
EnvValues == {None, Some("TRUE"), Some("true")}

\* config::CellarConfig as Poller::new reads it
CellarConfig ==
    [ duration |-> 60,
      pair_id |-> 1,
      token_0 |-> [decimals |-> 1],
      token_1 |-> [decimals |-> 0],
      weight_factor |-> 2,
      max_gas_price_gwei |-> 1 ]

(***************************************************************************)
(* src/time_range.rs                                                       *)
(***************************************************************************)
\* mongodb::bson::Bson values, by the variant they hold
Double(x) == [type |-> "double", v |-> x]
BsonDateTime(t) == [type |-> "datetime", v |-> t]
BsonString == [type |-> "string", v |-> 0]

\* Bson::as_f64: Some only for the Double variant
as_f64(b) == IF b.type = "double" THEN Some(b.v) ELSE None

\* Bson::as_datetime: Some only for the DateTime variant
as_datetime(b) == IF b.type = "datetime" THEN Some(b.v) ELSE None

RECURSIVE Pow10(_)
Pow10(n) == IF n = 0 THEN 1 ELSE 10 * Pow10(n - 1)

\* f64::to_bigint: the fractional part is discarded (h counts halves, h >= 0)
to_bigint(h) == h \div 2

\* fn f64_unit_to_price
f64_unit_to_price(f64, token_0, token_1) ==
    [ amount_0 |-> to_bigint(f64) * Pow10(token_0.decimals),
      amount_1 |-> 1 * Pow10(token_1.decimals) ]

\* floor(log_b(n / d)) for n >= d > 0
RECURSIVE FloorLog(_, _, _)
FloorLog(b, n, d) == IF n < b * d THEN 0 ELSE 1 + FloorLog(b, n, d * b)

\* uniswap_v3_sdk::priceToTick, the log-based price-to-tick mapping.  The
\* library's base is 1.0001; the model uses base 2, which keeps the mapping
\* monotonic and many-to-one.  Prices below 1 map to the negated tick of
\* the inverse price.
priceToTick(price) ==
    IF price.amount_0 >= price.amount_1
    THEN FloorLog(2, price.amount_0, price.amount_1)
    ELSE 0 - FloorLog(2, price.amount_1, price.amount_0) - 1

\* (self.weight_factor as f64 * weight) as u32: the cast truncates toward
\* zero (w counts quarters, w >= 0)
scaled_weight(weight_factor, w) == (weight_factor * w) \div 4

\* the body of the `for tick_weight in latest_prediction.tick_weights` loop
to_tick_weight(self, tick_weight) ==
    LET upper_float == as_f64(tick_weight.upper)[1]
        lower_float == as_f64(tick_weight.lower)[1]
        upper_price == f64_unit_to_price(upper_float, self.token_info[1], self.token_info[2])
        lower_price == f64_unit_to_price(lower_float, self.token_info[1], self.token_info[2])
    IN  [ upper_bound |-> priceToTick(upper_price),
          lower_bound |-> priceToTick(lower_price),
          weight |-> scaled_weight(self.weight_factor, as_f64(tick_weight.weight)[1]) ]

\* the unwrap()s of TimeRange::poll that a store answer can trip
poll_panics(resp) ==
    \/ resp.kind = "unreachable"
    \/ /\ resp.kind = "found"
       /\ \/ as_datetime(resp.doc.created_timestamp) = None
          \/ \E i \in DOMAIN resp.doc.tick_weights :
                \/ as_f64(resp.doc.tick_weights[i].upper) = None
                \/ as_f64(resp.doc.tick_weights[i].lower) = None
                \/ as_f64(resp.doc.tick_weights[i].weight) = None

\* sorted_predictions.try_next(): the newest document, if there is one
try_next(resp) == IF resp.kind = "found" THEN Some(resp.doc) ELSE None

\* as apply_prediction, with self.time assigned before it is copied to
\* previous_update
apply_prediction_shifts_late(self, latest_prediction) ==
    [ self EXCEPT
        !.previous_update = as_datetime(latest_prediction.created_timestamp),
        !.time = as_datetime(latest_prediction.created_timestamp),
        !.pair_id = latest_prediction.pair_id,
        !.tick_weights =
            [ i \in DOMAIN latest_prediction.tick_weights |->
                to_tick_weight(self, latest_prediction.tick_weights[i]) ] ]

\* as apply_prediction, without self.tick_weights.clear()
apply_prediction_appends(self, latest_prediction) ==
    [ self EXCEPT
        !.previous_update = self.time,
        !.time = as_datetime(latest_prediction.created_timestamp),
        !.pair_id = latest_prediction.pair_id,
        !.tick_weights =
            self.tick_weights \o
            [ i \in DOMAIN latest_prediction.tick_weights |->
                to_tick_weight(self, latest_prediction.tick_weights[i]) ] ]

\* as apply_prediction, with insert(0, ..) in place of push
apply_prediction_pushes_front(self, latest_prediction) ==
    [ self EXCEPT
        !.previous_update = self.time,
        !.time = as_datetime(latest_prediction.created_timestamp),
        !.pair_id = latest_prediction.pair_id,
        !.tick_weights =
            [ i \in DOMAIN latest_prediction.tick_weights |->
                to_tick_weight(self,
                    latest_prediction.tick_weights[
                        Len(latest_prediction.tick_weights) + 1 - i]) ] ]

\* the body of `if let Some(latest_prediction) = ...` in TimeRange::poll
apply_prediction(self, latest_prediction) ==
    [ self EXCEPT
        !.previous_update = self.time,
        !.time = as_datetime(latest_prediction.created_timestamp),
        !.pair_id = latest_prediction.pair_id,
        !.tick_weights =
            [ i \in DOMAIN latest_prediction.tick_weights |->
                to_tick_weight(self, latest_prediction.tick_weights[i]) ] ]

\* as merge_latest, with the timestamp shift hoisted out of the `if let`
merge_latest_shifts_first(self, latest) ==
    IF latest = None
    THEN [ self EXCEPT !.previous_update = self.time ]
    ELSE apply_prediction(self, latest[1])

\* the `if let Some(latest_prediction) = ...` statement of TimeRange::poll:
\* without a document the window is left as it is
merge_latest(self, latest) ==
    IF latest = None
    THEN self
    ELSE apply_prediction(self, latest[1])

\* TimeRange::poll on a window that does not panic
TimeRange_poll(self, resp) == merge_latest(self, try_next(resp))

(***************************************************************************)
(* What the collaborators may answer                                       *)
(***************************************************************************)
SeqsUpTo(S, n) == UNION { [1..k -> S] : k \in 0..n }

\* MongoTickWeights whose three fields are doubles
MongoTickWeights ==
    { [lower |-> Double(l), upper |-> Double(u), weight |-> Double(w)] :
        l \in RawUnits, u \in RawUnits, w \in RawWeights }

\* the bounds the store of Spec holds: one price span, weight 0.0 or 0.5
SpanTickWeights ==
    { b \in MongoTickWeights :
        b.lower = Double(2) /\ b.upper = Double(5) /\ b.weight \in {Double(0), Double(2)} }

\* MongoData documents that TimeRange::poll reads without panicking
GoodDocs(times, pairs, bounds, n) ==
    { [created_timestamp |-> BsonDateTime(t), pair_id |-> p, tick_weights |-> tw] :
        t \in times, p \in pairs, tw \in SeqsUpTo(bounds, n) }

\* documents with a created_timestamp that is no DateTime, or a bound field
\* that is no Double
MalformedDocs ==
    { [created_timestamp |-> BsonString, pair_id |-> CellarConfig.pair_id,
       tick_weights |-> << >>],
      [created_timestamp |-> BsonDateTime(1), pair_id |-> CellarConfig.pair_id,
       tick_weights |-> << [lower |-> Double(2), upper |-> Double(5),
                            weight |-> BsonString] >>] }

Found(doc) == [kind |-> "found", doc |-> doc]

\* answers of the prediction store to the find() of TimeRange::poll
StoreResponses ==
    { [kind |-> "unreachable"], [kind |-> "empty"] }
        \cup { Found(d) : d \in GoodDocs(Timestamps, PairIds, SpanTickWeights, MaxLen) \cup MalformedDocs }

\* answers of CellarGas::etherscan_standard()
OracleResponses == { [ok |-> FALSE, price |-> 0] } \cup { [ok |-> TRUE, price |-> g] : g \in GasPrices }

RebalanceResults == {"Ok", "Err"}

(***************************************************************************)
(* cellar_rebalancer/src/collector/poller.rs                               *)
(***************************************************************************)
\* as from_tick_weight, with the two bounds exchanged
from_tick_weight_swapped(tick_weight) ==
    [ token_id |-> 0,
      tick_upper |-> tick_weight.lower_bound,
      tick_lower |-> tick_weight.upper_bound,
      weight |-> tick_weight.weight ]

\* pub fn from_tick_weight
from_tick_weight(tick_weight) ==
    [ token_id |-> 0,
      tick_upper |-> tick_weight.upper_bound,
      tick_lower |-> tick_weight.lower_bound,
      weight |-> tick_weight.weight ]

\* Vec::reverse
reverse(v) == [ i \in 1..Len(v) |-> v[Len(v) + 1 - i] ]

\* the loop as the older Poller of src/collector/poller.rs has it: every
\* range becomes an instruction
build_tick_info_unfiltered(tick_weights) ==
    [ i \in DOMAIN tick_weights |-> from_tick_weight(tick_weights[i]) ]

\* the loop of decide_rebalance that fills tick_info
RECURSIVE build_tick_info(_)
build_tick_info(tick_weights) ==
    IF tick_weights = << >>
    THEN << >>
    ELSE LET tick_weight == Head(tick_weights) IN
         IF tick_weight.weight > 0
         THEN << from_tick_weight(tick_weight) >> \o build_tick_info(Tail(tick_weights))
         ELSE build_tick_info(Tail(tick_weights))

\* as is_dry_run, comparing with the lower-case spelling
is_dry_run_lowercase(value) == value = "true"

\* the test of decide_rebalance on the value of CELLAR_DRY_RUN
is_dry_run(value) == value = "TRUE"

\* as rebalance_argument, without tick_info.reverse()
rebalance_argument_unreversed(built) == built

\* the argument of contract_state.rebalance in decide_rebalance
rebalance_argument(built) == reverse(built)

\* as cellar_gas_result, with unwrap_or_default() in place of map_err
cellar_gas_result_defaulted(resp) ==
    IF resp.ok THEN [ok |-> TRUE, gas |-> resp.price] ELSE [ok |-> TRUE, gas |-> 0]

\* poll_cellar_gas: the oracle's answer as a Result<U256, Error>
cellar_gas_result(resp) ==
    IF resp.ok THEN [ok |-> TRUE, gas |-> resp.price] ELSE [ok |-> FALSE, gas |-> 0]

\* poll_time_range: the window it returns; self.time_range is cloned first
\* and is left as it is
polled_time_range(self_time_range, resp) == TimeRange_poll(self_time_range, resp)

\* poll_time_range with time_range.poll() called on self.time_range itself
own_time_range_polled_in_place(self_time_range, polled) == polled

\* poll_time_range: self.time_range after the call; poll() ran on a clone
own_time_range_after_poll(self_time_range, polled) == self_time_range

\* as update_poller, without the assignment to cellar_gas.current_gas
update_poller_without_gas(new_time_range, gas) ==
    [ cellar_gas |-> cellar_gas,
      contract_state |-> [contract_state EXCEPT !.gas_price = Some(gas)],
      time_range |-> new_time_range ]

\* as update_poller, with the price capped at max_gas_price
update_poller_capped(new_time_range, gas) ==
    LET capped == IF gas > cellar_gas.max_gas_price THEN cellar_gas.max_gas_price ELSE gas
    IN  [ cellar_gas |-> [cellar_gas EXCEPT !.current_gas = Some(capped)],
          contract_state |-> [contract_state EXCEPT !.gas_price = Some(capped)],
          time_range |-> new_time_range ]

\* as update_poller, without the assignment to contract_state.gas_price
update_poller_without_cache(new_time_range, gas) ==
    [ cellar_gas |-> [cellar_gas EXCEPT !.current_gas = Some(gas)],
      contract_state |-> contract_state,
      time_range |-> new_time_range ]

\* update_poller: the three fields it assigns
update_poller(new_time_range, gas) ==
    [ cellar_gas |-> [cellar_gas EXCEPT !.current_gas = Some(gas)],
      contract_state |-> [contract_state EXCEPT !.gas_price = Some(gas)],
      time_range |-> new_time_range ]

\* as tick_returns, for a loop that spawns poll instead of awaiting it
tick_returns_detached == pc # "Panicked" /\ ticks_due > 0

\* `interval.tick().await` returns: the loop of run stands at it and a
\* deadline of the interval has elapsed
tick_returns == pc = "Idle" /\ ticks_due > 0

\* the Poller's mutable state
Snapshot ==
    [ time_range |-> time_range,
      current_gas |-> cellar_gas.current_gas,
      gas_price |-> contract_state.gas_price ]

\* UniswapV3CellarState::new: no gas price has been pushed in yet
UniswapV3CellarState_new == [ gas_price |-> None ]

\* Poller::new
NewTimeRange ==
    [ time |-> None,
      previous_update |-> None,
      pair_id |-> CellarConfig.pair_id,
      token_info |-> << CellarConfig.token_0, CellarConfig.token_1 >>,
      weight_factor |-> CellarConfig.weight_factor,
      tick_weights |-> << >> ]

Init ==
    /\ poll_interval = CellarConfig.duration
    /\ time_range = NewTimeRange
    /\ cellar_gas = [ max_gas_price |-> CellarConfig.max_gas_price_gwei * Pow10(9),
                      current_gas |-> None ]
    /\ contract_state = UniswapV3CellarState_new
    /\ dry_run_env \in EnvValues
    /\ pc = "Idle"
    /\ ticks_due = 1
    /\ fetched_tr = None
    /\ fetched_gas = None
    /\ fetched_cs = FALSE
    /\ tick_info = << >>
    /\ in_flight = 0
    /\ active_cycles = 0
    /\ before = [ time_range |-> NewTimeRange, current_gas |-> None, gas_price |-> None ]
    /\ store_resp = [kind |-> "none"]
    /\ gas_resp = None
    /\ merged = FALSE
    /\ rebalance_calls = 0
    /\ decide_result = "none"

poller_fields == << poll_interval, time_range, cellar_gas, contract_state, dry_run_env >>
cycle_history == << before, store_resp, gas_resp, merged, rebalance_calls, decide_result >>

\* a deadline of time::interval(poll_interval) elapses: the deadlines are one
\* period apart from the creation of the interval on, and every elapsed one
\* makes one tick() return, at once when it elapsed during a cycle.  A task
\* whose tick() can return runs before the next deadline.
interval_elapses ==
    /\ pc # "Panicked"
    /\ ~tick_returns
    /\ ticks_due < MaxPending
    /\ ticks_due' = ticks_due + 1
    /\ UNCHANGED << poller_fields, pc, fetched_tr, fetched_gas, fetched_cs, tick_info,
                    in_flight, active_cycles, cycle_history >>

\* run: tick() returns and poll begins; try_join! holds three unpolled futures
run ==
    /\ tick_returns
    /\ ticks_due' = ticks_due - 1
    /\ pc' = "Fetching"
    /\ active_cycles' = active_cycles + 1
    /\ fetched_tr' = None
    /\ fetched_gas' = None
    /\ fetched_cs' = FALSE
    /\ tick_info' = << >>
    /\ before' = Snapshot
    /\ store_resp' = [kind |-> "none"]
    /\ gas_resp' = None
    /\ merged' = FALSE
    /\ rebalance_calls' = 0
    /\ decide_result' = "none"
    /\ UNCHANGED << poller_fields, in_flight >>

\* poll_time_range completes inside try_join!: the store answers and
\* TimeRange::poll either panics or returns, and the clone goes into the slot
poll_time_range(resp) ==
    /\ pc = "Fetching"
    /\ fetched_tr = None
    /\ store_resp' = resp
    /\ IF poll_panics(resp)
       THEN /\ pc' = "Panicked"
            /\ UNCHANGED << fetched_tr, time_range >>
       ELSE /\ pc' = pc
            /\ fetched_tr' = Some(polled_time_range(time_range, resp))
            /\ time_range' =
                  own_time_range_after_poll(time_range, polled_time_range(time_range, resp))
    /\ UNCHANGED << poll_interval, cellar_gas, contract_state, dry_run_env, ticks_due,
                    fetched_gas, fetched_cs, tick_info, in_flight, active_cycles,
                    before, gas_resp, merged, rebalance_calls, decide_result >>

\* poll_cellar_gas completes inside try_join!: an Err ends the join at once
poll_cellar_gas(resp) ==
    /\ pc = "Fetching"
    /\ fetched_gas = None
    /\ gas_resp' = Some(resp)
    /\ LET res == cellar_gas_result(resp) IN
       IF res.ok
       THEN /\ fetched_gas' = Some(res.gas)
            /\ pc' = pc
       ELSE /\ fetched_gas' = fetched_gas
            /\ pc' = "Skipping"
    /\ UNCHANGED << poller_fields, ticks_due, fetched_tr, fetched_cs, tick_info, in_flight,
                    active_cycles, before, store_resp, merged, rebalance_calls,
                    decide_result >>

\* poll_contract_state completes inside try_join!: always Ok
poll_contract_state ==
    /\ pc = "Fetching"
    /\ ~fetched_cs
    /\ fetched_cs' = TRUE
    /\ UNCHANGED << poller_fields, pc, ticks_due, fetched_tr, fetched_gas, tick_info,
                    in_flight, active_cycles, cycle_history >>

\* poll, the Ok arm up to decide_rebalance: all three futures are ready and
\* update_poller merges them
poll_ok ==
    /\ pc = "Fetching"
    /\ fetched_tr # None /\ fetched_gas # None /\ fetched_cs
    /\ LET upd == update_poller(fetched_tr[1], fetched_gas[1]) IN
         /\ cellar_gas' = upd.cellar_gas
         /\ contract_state' = upd.contract_state
         /\ time_range' = upd.time_range
    /\ merged' = TRUE
    /\ pc' = "Deciding"
    /\ UNCHANGED << poll_interval, dry_run_env, ticks_due, fetched_tr, fetched_gas,
                    fetched_cs, tick_info, in_flight, active_cycles, before, store_resp,
                    gas_resp, rebalance_calls, decide_result >>

\* poll, the Err arm: the error is logged and poll returns
poll_err ==
    /\ pc = "Skipping"
    /\ pc' = "Idle"
    /\ active_cycles' = active_cycles - 1
    /\ UNCHANGED << poller_fields, ticks_due, fetched_tr, fetched_gas, fetched_cs,
                    tick_info, in_flight, cycle_history >>

\* decide_rebalance up to its await: builds tick_info, reads CELLAR_DRY_RUN
\* (expect panics when it is not set), returns Ok(()) on a dry run and
\* otherwise sends the reversed list to contract_state.rebalance
decide_rebalance ==
    /\ pc = "Deciding"
    /\ LET built == build_tick_info(time_range.tick_weights) IN
       IF dry_run_env = None
       THEN /\ tick_info' = built
            /\ pc' = "Panicked"
            /\ UNCHANGED << in_flight, active_cycles, rebalance_calls, decide_result >>
       ELSE IF is_dry_run(dry_run_env[1])
       THEN /\ tick_info' = built
            /\ decide_result' = "Ok"
            /\ pc' = "Idle"
            /\ active_cycles' = active_cycles - 1
            /\ UNCHANGED << in_flight, rebalance_calls >>
       ELSE /\ tick_info' = rebalance_argument(built)
            /\ pc' = "Rebalancing"
            /\ in_flight' = in_flight + 1
            /\ rebalance_calls' = rebalance_calls + 1
            /\ UNCHANGED << active_cycles, decide_result >>
    /\ UNCHANGED << poller_fields, ticks_due, fetched_tr, fetched_gas, fetched_cs,
                    before, store_resp, gas_resp, merged >>

\* contract_state.rebalance answers: decide_rebalance returns its result and
\* poll unwrap()s it
rebalance_returns(result) ==
    /\ pc = "Rebalancing"
    /\ in_flight' = in_flight - 1
    /\ decide_result' = result
    /\ IF result = "Ok"
       THEN /\ pc' = "Idle"
            /\ active_cycles' = active_cycles - 1
       ELSE /\ pc' = "Panicked"
            /\ active_cycles' = active_cycles
    /\ UNCHANGED << poller_fields, ticks_due, fetched_tr, fetched_gas, fetched_cs,
                    tick_info, before, store_resp, gas_resp, merged, rebalance_calls >>

Next ==
    \/ interval_elapses
    \/ run
    \/ \E resp \in StoreResponses : poll_time_range(resp)
    \/ \E resp \in OracleResponses : poll_cellar_gas(resp)
    \/ poll_contract_state
    \/ poll_ok
    \/ poll_err
    \/ decide_rebalance
    \/ \E result \in RebalanceResults : rebalance_returns(result)

Spec == Init /\ [][Next]_vars

\* The scheduler runs the task whenever it can go on, and the collaborators
\* answer every request.
FairSpec ==
    /\ Spec
    /\ WF_vars(interval_elapses)
    /\ WF_vars(run)
    /\ WF_vars(\E resp \in StoreResponses : poll_time_range(resp))
    /\ WF_vars(\E resp \in OracleResponses : poll_cellar_gas(resp))
    /\ WF_vars(poll_contract_state)
    /\ WF_vars(poll_ok)
    /\ WF_vars(poll_err)
    /\ WF_vars(decide_rebalance)
    /\ WF_vars(\E result \in RebalanceResults : rebalance_returns(result))

(***************************************************************************)
(* decide_rebalance on every window a first cycle can merge                *)
(***************************************************************************)
\* the Poller right after update_poller in its first cycle, the store
\* having answered with a document of up to MaxRanges bounds for the
\* configured pair
DecideInit ==
    \E doc \in GoodDocs({1}, {CellarConfig.pair_id}, MongoTickWeights, MaxRanges), g \in {1} :
        /\ poll_interval = CellarConfig.duration
        /\ time_range = polled_time_range(NewTimeRange, Found(doc))
        /\ cellar_gas = [ max_gas_price |-> CellarConfig.max_gas_price_gwei * Pow10(9),
                          current_gas |-> Some(g) ]
        /\ contract_state = [ gas_price |-> Some(g) ]
        /\ dry_run_env \in EnvValues
        /\ pc = "Deciding"
        /\ ticks_due = 0
        /\ fetched_tr = Some(polled_time_range(NewTimeRange, Found(doc)))
        /\ fetched_gas = Some(g)
        /\ fetched_cs = TRUE
        /\ tick_info = << >>
        /\ in_flight = 0
        /\ active_cycles = 1
        /\ before = [ time_range |-> NewTimeRange, current_gas |-> None, gas_price |-> None ]
        /\ store_resp = Found(doc)
        /\ gas_resp = Some([ok |-> TRUE, price |-> g])
        /\ merged = TRUE
        /\ rebalance_calls = 0
        /\ decide_result = "none"

DecideNext ==
    \/ decide_rebalance
    \/ \E result \in RebalanceResults : rebalance_returns(result)

DecideSpec == DecideInit /\ [][DecideNext]_vars

(***************************************************************************)
(* One cycle on every document of up to MaxBounds bounds                   *)
(***************************************************************************)
\* windows the Poller holds when a cycle begins: the one of Poller::new and
\* those merged from a document with at most one bound of the store of Spec
PriorWindows ==
    { NewTimeRange } \cup
    { TimeRange_poll(NewTimeRange, Found(d)) :
        d \in GoodDocs({1}, {CellarConfig.pair_id}, SpanTickWeights, 1) }

\* answers of the store in PollSpec: no document, or one for the configured
\* pair with any bounds
PollResponses ==
    { [kind |-> "empty"] } \cup
    { Found(d) :
        d \in GoodDocs(Timestamps, {CellarConfig.pair_id}, MongoTickWeights, MaxBounds) }

\* the Poller in a cycle, the first one or one that follows a merged cycle,
\* when the gas oracle and poll_contract_state have answered and the
\* prediction store has not
PollInit ==
    \E w \in PriorWindows, g \in {2000000000} :
        LET gas == IF w = NewTimeRange THEN None ELSE Some(1) IN
        /\ poll_interval = CellarConfig.duration
        /\ time_range = w
        /\ cellar_gas = [ max_gas_price |-> CellarConfig.max_gas_price_gwei * Pow10(9),
                          current_gas |-> gas ]
        /\ contract_state = [ gas_price |-> gas ]
        /\ dry_run_env \in EnvValues \ {None}
        /\ pc = "Fetching"
        /\ ticks_due = 0
        /\ fetched_tr = None
        /\ fetched_gas = Some(g)
        /\ fetched_cs = TRUE
        /\ tick_info = << >>
        /\ in_flight = 0
        /\ active_cycles = 1
        /\ before = [ time_range |-> w, current_gas |-> gas, gas_price |-> gas ]
        /\ store_resp = [kind |-> "none"]
        /\ gas_resp = Some([ok |-> TRUE, price |-> g])
        /\ merged = FALSE
        /\ rebalance_calls = 0
        /\ decide_result = "none"

PollNext ==
    \/ /\ fetched_tr = None
       /\ \E resp \in PollResponses : poll_time_range(resp)
    \/ poll_ok
    \/ decide_rebalance
    \/ \E result \in RebalanceResults : rebalance_returns(result)

PollSpec == PollInit /\ [][PollNext]_vars

(***************************************************************************)
(* Properties                                                              *)
(***************************************************************************)
\* the prediction fetch or the gas fetch of the current cycle failed (the
\* contract-state fetch always returns Ok)
FetchFailed ==
    \/ poll_panics(store_resp)
    \/ gas_resp # None /\ ~gas_resp[1].ok

\* C1: in a cycle in which a fetch failed, time_range, cellar_gas.current_gas
\* and contract_state.gas_price have the values they had when the cycle
\* began, and update_poller has not run.
C1_PartialFailureAtomicity ==
    FetchFailed => (Snapshot = before /\ ~merged)

\* a later cycle ended in the Err arm while the polled clone, which differs
\* from the Poller's window, was ready
C1_Witness ==
    /\ pc = "Idle"
    /\ gas_resp # None /\ ~gas_resp[1].ok
    /\ before.time_range.time # None
    /\ fetched_tr # None /\ fetched_tr[1] # time_range

\* C2: a failed rebalance call does not end the polling loop.
C2_RebalanceFailureRecoverable ==
    decide_result = "Err" => pc # "Panicked"

\* C3: at most one cycle is active and at most one rebalance call is in
\* flight, and no call is in flight while a cycle is fetching.
C3_OneCycleOneRebalance ==
    /\ active_cycles <= 1
    /\ in_flight <= 1
    /\ (pc = "Fetching" => in_flight = 0)

\* two deadlines elapsed while the rebalance call was in flight
C3_Witness ==
    pc = "Rebalancing" /\ in_flight = 1 /\ active_cycles = 1 /\ ticks_due >= 2

IsReverseOfSurvivors(instr, tick_weights) ==
    LET surviving == { j \in DOMAIN tick_weights : tick_weights[j].weight > 0 }
        n == Len(instr)
    IN  /\ n = Cardinality(surviving)
        /\ \E f \in [1..n -> DOMAIN tick_weights] :
              /\ \A i \in 1..n :
                    /\ f[i] \in surviving
                    /\ instr[i].tick_upper = tick_weights[f[i]].upper_bound
                    /\ instr[i].tick_lower = tick_weights[f[i]].lower_bound
                    /\ instr[i].weight = tick_weights[f[i]].weight
              /\ \A i, k \in 1..n : i < k => f[i] > f[k]

\* C5: the list passed to rebalance is the reverse of the ranges of
\* time_range.tick_weights with weight > 0.
C5_OrderInversion ==
    rebalance_calls > 0 => IsReverseOfSurvivors(tick_info, time_range.tick_weights)

\* A(w>0), B(w=0), C(w>0) with A # C was sent as C, A
C5_Witness ==
    /\ rebalance_calls = 1
    /\ Len(time_range.tick_weights) = 3
    /\ time_range.tick_weights[2].weight = 0
    /\ Len(tick_info) = 2
    /\ tick_info[1] # tick_info[2]
    /\ tick_info[1].weight = time_range.tick_weights[3].weight
    /\ tick_info[1].tick_upper = time_range.tick_weights[3].upper_bound

\* C6: with CELLAR_DRY_RUN = "TRUE" rebalance is never called, and a cycle
\* whose fetches all succeeded sets time to the newest document's timestamp
\* (leaving it when there is none) and current_gas to the oracle's price,
\* and ends with decide_rebalance returning Ok.
C6_DryRun ==
    dry_run_env = Some("TRUE") =>
        /\ rebalance_calls = 0 /\ in_flight = 0 /\ pc # "Rebalancing"
        /\ merged =>
              /\ cellar_gas.current_gas = Some(gas_resp[1].price)
              /\ store_resp.kind = "found" =>
                    time_range.time = Some(store_resp.doc.created_timestamp.v)
              /\ store_resp.kind = "empty" =>
                    time_range.time = before.time_range.time
              /\ pc \in {"Deciding", "Idle"}
              /\ pc = "Idle" => decide_result = "Ok"

\* a dry-run cycle after the first ended: time and gas changed, and there
\* were instructions that were not sent
C6_Witness ==
    /\ dry_run_env = Some("TRUE")
    /\ merged /\ pc = "Idle"
    /\ before.time_range.time # None
    /\ time_range.time # before.time_range.time
    /\ cellar_gas.current_gas # before.current_gas
    /\ tick_info # << >>

\* C7: when the store holds no document, poll_time_range returns Ok with a
\* window equal to the one the cycle began with.
C7_EmptyStore ==
    store_resp.kind = "empty" => fetched_tr = Some(before.time_range)

\* the store answered empty to a Poller that holds ranges and two
\* different timestamps
C7_Witness ==
    /\ store_resp.kind = "empty"
    /\ fetched_tr # None
    /\ before.time_range.tick_weights # << >>
    /\ before.time_range.time # before.time_range.previous_update

\* C8: when the store is unreachable or the newest document is malformed,
\* the cycle is skipped (or has ended) with the Poller unchanged and no
\* rebalance call, and the loop goes on.
C8_StoreFailureSkipsCycle ==
    poll_panics(store_resp) =>
        /\ pc \in {"Skipping", "Idle"}
        /\ Snapshot = before
        /\ rebalance_calls = 0

\* C9: with CELLAR_DRY_RUN set, whatever the collaborators answer, the
\* Poller is at its tick again and again, and starts a cycle again and again.
C9_NoTerminalState ==
    dry_run_env # None =>
        /\ []<>(pc = "Idle")
        /\ []<>(pc = "Fetching")

\* C10: when a tick starts a cycle, no elapsed deadline is left to start
\* another one at once.
C10_TicksNotQueued ==
    [][(pc = "Idle" /\ pc' = "Fetching") => ticks_due' = 0]_vars

\* C11: the window's pair_id is the configured pair in every state, and the
\* document a cycle merged was one of the configured pair.
C11_NoCrossPairMixing ==
    /\ time_range.pair_id = CellarConfig.pair_id
    /\ (merged /\ store_resp.kind = "found") =>
          store_resp.doc.pair_id = CellarConfig.pair_id

\* C12: every range of time_range.tick_weights and every entry of tick_info
\* has its lower tick at or below its upper tick.
C12_BoundsOrdered ==
    /\ \A i \in DOMAIN time_range.tick_weights :
          time_range.tick_weights[i].lower_bound <= time_range.tick_weights[i].upper_bound
    /\ \A i \in DOMAIN tick_info :
          tick_info[i].tick_lower <= tick_info[i].tick_upper

\* C13: cellar_gas.current_gas differs from its value at the start of the
\* cycle only once update_poller has run, so it is None until the first cycle
\* that merged; decide_rebalance and the rebalance call are reached only
\* with current_gas = Some(price the oracle returned in this cycle).
C13_GasAbsence ==
    /\ ~merged => cellar_gas.current_gas = before.current_gas
    /\ (~merged /\ before.current_gas = None) => cellar_gas.current_gas = None
    /\ pc \in {"Deciding", "Rebalancing"} =>
          /\ gas_resp # None /\ gas_resp[1].ok
          /\ cellar_gas.current_gas = Some(gas_resp[1].price)

\* the first cycle that merged reached the rebalance call: the price was
\* absent when the cycle began
C13_Witness ==
    /\ pc = "Rebalancing"
    /\ before.current_gas = None
    /\ cellar_gas.current_gas # None

\* C14: the tick_weights and the time a poll produces from a found document
\* are those that a poll of any other prior window, and a second poll of the
\* produced window, produce from the same document.
C14_NormalizationDeterminism ==
    (fetched_tr # None /\ store_resp.kind = "found") =>
        \A w \in PriorWindows \cup { fetched_tr[1] } :
            LET again == polled_time_range(w, store_resp) IN
            /\ again.tick_weights = fetched_tr[1].tick_weights
            /\ again.time = fetched_tr[1].time

\* a document with two different bounds was polled into a window that held
\* a range and another timestamp
C14_Witness ==
    /\ fetched_tr # None /\ store_resp.kind = "found"
    /\ before.time_range.tick_weights # << >>
    /\ before.time_range.time # fetched_tr[1].time
    /\ Len(fetched_tr[1].tick_weights) = 2
    /\ fetched_tr[1].tick_weights[1] # fetched_tr[1].tick_weights[2]

\* C15: a poll that finds a document returns a window whose previous_update
\* is the time the window held before and whose time is the document's
\* created_timestamp; a second poll that finds the same document returns
\* previous_update = time.
C15_TimestampShift ==
    (fetched_tr # None /\ store_resp.kind = "found") =>
        /\ fetched_tr[1].previous_update = before.time_range.time
        /\ fetched_tr[1].time = Some(store_resp.doc.created_timestamp.v)
        /\ LET again == polled_time_range(fetched_tr[1], store_resp)
           IN  again.previous_update = again.time
        /\ before.time_range.time = Some(store_resp.doc.created_timestamp.v) =>
              fetched_tr[1].previous_update = fetched_tr[1].time

\* the cycle before merged the document of timestamp 2 over a window of
\* timestamp 1, and this cycle found the same document again
C15_Witness ==
    /\ fetched_tr # None /\ store_resp.kind = "found"
    /\ before.time_range.previous_update = Some(1)
    /\ before.time_range.time = Some(2)
    /\ store_resp.doc.created_timestamp.v = 2
    /\ fetched_tr[1].previous_update = Some(2)
    /\ fetched_tr[1].time = Some(2)

\* C16: a poll that finds a document with n bounds returns a window with
\* exactly n ranges, the i-th computed from the i-th bound of the document,
\* whatever ranges the window held before.
C16_WholesaleReplacement ==
    (fetched_tr # None /\ store_resp.kind = "found") =>
        LET bounds == store_resp.doc.tick_weights
            ranges == fetched_tr[1].tick_weights
        IN  /\ Len(ranges) = Len(bounds)
            /\ \A i \in 1..Len(bounds) :
                  ranges[i] = to_tick_weight(before.time_range, bounds[i])
            /\ bounds = << >> => ranges = << >>

\* a document with two different bounds replaced a window whose range is
\* not among the new ones
C16_Witness ==
    /\ fetched_tr # None /\ store_resp.kind = "found"
    /\ Len(before.time_range.tick_weights) = 1
    /\ Len(fetched_tr[1].tick_weights) = 2
    /\ fetched_tr[1].tick_weights[1] # fetched_tr[1].tick_weights[2]
    /\ \A i \in 1..2 : fetched_tr[1].tick_weights[i] # before.time_range.tick_weights[1]
    /\ merged

\* instr carries the ticks and the weight of tick_weight, upper to upper
\* and lower to lower
BuiltFrom(instr, tick_weight) ==
    /\ instr.tick_upper = tick_weight.upper_bound
    /\ instr.tick_lower = tick_weight.lower_bound
    /\ instr.weight = tick_weight.weight

\* C17: once decide_rebalance has built tick_info, every entry has
\* token_id = 0 and the upper tick, lower tick and weight of a range of
\* weight > 0, and every range of weight > 0 has such an entry.
C17_InstructionFields ==
    (merged /\ pc # "Deciding") =>
        /\ \A i \in DOMAIN tick_info :
              /\ tick_info[i].token_id = 0
              /\ \E j \in DOMAIN time_range.tick_weights :
                    /\ time_range.tick_weights[j].weight > 0
                    /\ BuiltFrom(tick_info[i], time_range.tick_weights[j])
        /\ \A j \in DOMAIN time_range.tick_weights :
              time_range.tick_weights[j].weight > 0 =>
                  \E i \in DOMAIN tick_info :
                      BuiltFrom(tick_info[i], time_range.tick_weights[j])

\* an instruction with different upper and lower ticks was sent, and no
\* range has them the other way round
C17_Witness ==
    /\ pc = "Rebalancing"
    /\ \E i \in DOMAIN tick_info :
          /\ tick_info[i].tick_upper # tick_info[i].tick_lower
          /\ \A j \in DOMAIN time_range.tick_weights :
                time_range.tick_weights[j].upper_bound # tick_info[i].tick_lower

\* C18: while poll awaits try_join! the Poller's fields are those of the
\* start of the cycle; update_poller runs only with all three results, and
\* the fields it leaves are determined by the window at the start of the
\* cycle and the two answers, not by the order in which the futures finished.
C18_FanOutFanIn ==
    /\ pc = "Fetching" => (Snapshot = before /\ ~merged)
    /\ merged =>
          /\ fetched_tr # None /\ fetched_gas # None /\ fetched_cs
          /\ gas_resp # None /\ gas_resp[1].ok
          /\ Snapshot =
                [ time_range |-> polled_time_range(before.time_range, store_resp),
                  current_gas |-> Some(gas_resp[1].price),
                  gas_price |-> Some(gas_resp[1].price) ]

\* the prediction and the gas fetch have resolved, poll_contract_state has
\* not, and the polled clone differs from the window the Poller still holds
C18_Witness ==
    /\ pc = "Fetching"
    /\ fetched_tr # None /\ fetched_tr[1] # time_range
    /\ fetched_gas # None /\ cellar_gas.current_gas # fetched_gas
    /\ ~fetched_cs

\* C19: a cycle that merged and whose CELLAR_DRY_RUN is not "TRUE" (unset
\* included) has, once decide_rebalance has run, called rebalance exactly
\* once with the reversed list of the ranges of weight > 0; a cycle with a
\* failed fetch has called it zero times.
C19_RebalanceCalledOnce ==
    /\ (merged /\ pc # "Deciding" /\ dry_run_env # Some("TRUE")) =>
          /\ rebalance_calls = 1
          /\ IsReverseOfSurvivors(tick_info, time_range.tick_weights)
    /\ FetchFailed => rebalance_calls = 0

\* C20: after update_poller cellar_gas.current_gas is the price the oracle
\* returned in this cycle, whatever max_gas_price and the previous price
\* are; max_gas_price, token_info, weight_factor and poll_interval keep the
\* values Poller::new gave them.
C20_GasAssignedFrameKept ==
    /\ merged => cellar_gas.current_gas = Some(gas_resp[1].price)
    /\ cellar_gas.max_gas_price = CellarConfig.max_gas_price_gwei * Pow10(9)
    /\ time_range.token_info = << CellarConfig.token_0, CellarConfig.token_1 >>
    /\ time_range.weight_factor = CellarConfig.weight_factor
    /\ poll_interval = CellarConfig.duration

\* a price above max_gas_price replaced a lower one of the cycle before
C20_Witness ==
    /\ merged
    /\ before.current_gas = Some(1)
    /\ gas_resp[1].price > cellar_gas.max_gas_price
    /\ cellar_gas.current_gas = Some(gas_resp[1].price)
    /\ time_range # before.time_range

\* C21: contract_state.gas_price equals cellar_gas.current_gas in every
\* state: both None until the first cycle that merged, both the price of the
\* latest merge afterwards; while the rebalance call is in flight it is the
\* price the oracle returned in that cycle.
C21_CachedGasPriceInSync ==
    /\ contract_state.gas_price = cellar_gas.current_gas
    /\ (~merged /\ before.gas_price = None) => contract_state.gas_price = None
    /\ ~merged => contract_state.gas_price = before.gas_price
    /\ pc = "Rebalancing" =>
          /\ gas_resp # None /\ gas_resp[1].ok
          /\ contract_state.gas_price = Some(gas_resp[1].price)

\* the rebalance call of a later cycle is in flight and the oracle's price
\* differs from the one merged in the cycle before
C21_Witness ==
    /\ pc = "Rebalancing"
    /\ before.gas_price # None
    /\ contract_state.gas_price # before.gas_price
    /\ contract_state.gas_price = cellar_gas.current_gas

\* f64::round of a value counted in quarters (q >= 0): to the nearest
\* integer, a half away from zero
round_quarters(q) == (q + 2) \div 4

\* C22: the weight of every range a poll computes is
\* round(weight_factor * w) for the f64 weight w of its bound, so a bound
\* with weight_factor * w in [0.5, 1) gets weight 1 and an instruction.
C22_WeightRounded ==
    /\ (fetched_tr # None /\ store_resp.kind = "found") =>
          \A i \in DOMAIN store_resp.doc.tick_weights :
              fetched_tr[1].tick_weights[i].weight =
                  round_quarters(before.time_range.weight_factor
                                    * store_resp.doc.tick_weights[i].weight.v)
    /\ (merged /\ store_resp.kind = "found" /\ pc # "Deciding") =>
          \A i \in DOMAIN store_resp.doc.tick_weights :
              LET q == before.time_range.weight_factor
                          * store_resp.doc.tick_weights[i].weight.v
              IN  (2 <= q /\ q < 4) =>
                      \E k \in DOMAIN tick_info : tick_info[k].weight = 1

====
